---- MODULE Spec2Model ----
(***************************************************************************)
(* The bulk loader's staged pipeline (cmd/bulkloader/loader.go): newLoader, *)
(* mapStage, reduceStage and cleanup, with the goroutines they start and    *)
(* the channels, wait groups and the limiter channel that connect them;    *)
(* and the ACL cache of package edgraph: update and authorizePredicate.     *)
(***************************************************************************)
EXTENDS Naturals, Integers, Sequences, FiniteSets, TLC

(***************************************************************************)
(* Bounds of the model.                                                     *)
(***************************************************************************)
\* largest number of lines in the source file
MaxLines == 2
\* largest value of opt.numGoroutines
MaxGoroutines == 2
\* largest number of postings the record transformer yields for the whole source
MaxPostings == 2
\* capacity of rdfCh, postingsCh and of each shuffle input channel; the code
\* makes them with 1000 slots, the model scales that down so that a full
\* channel is reachable
QueueCap == 1

\* capacity of reduceCh
ReduceChCap == 3

\* largest argument of aclCache.update: its groups plus the rules in their blobs
MaxAclSize == 3
\* largest number of goroutines that call into the ACL cache at the same time
MaxClients == 2

VARIABLES
  pc,              \* where the main goroutine is
  abortCause,      \* which fatal check ended the process ("" while alive)
  source,          \* the lines of the source file: source[r] is the number of
                   \* postings the record transformer yields for line r
  numGoroutines,   \* opt.numGoroutines
  reporterStarted, \* go ld.prog.report() has run
  dirs,            \* the directories that exist under opt.tmpDir
  scanned,         \* lines the scanner has returned so far
  scanErr,         \* sc.Err() != nil
  rdfCh, rdfClosed,
  postingsCh, postingsClosed,
  mapperState,     \* per mapper: "unstarted", "recv", "emit", "done"
  mapperCur,       \* per mapper: <<line, postings still to enqueue>>, <<0, 0>> between lines
  mapped,          \* per line: how many times a mapper dequeued it
  mapperWg, postingWriterWg,
  writerState,     \* "unstarted", "running", "done"
  writerBuf,       \* postings received and not yet spilled
  runs,            \* the content of the Run files written so far
  mapOutput,       \* ld.mapOutput: the paths writeMapOutput returned
  readerPos,       \* per Run: the next posting its reader will send
  readerClosed,    \* per Run: its reader has closed its channel
  shuffleInputChs, \* per Run: its channel
  mergerState,     \* "unstarted", "running", "done"
  curBatch,        \* the batch the merger is assembling
  reduceCh, reduceClosed,
  emitted,         \* every batch the merger has sent, in order
  batch,           \* the loop variable of `for batch := range reduceCh`
  pending,         \* tokens in the pending channel
  reduceWg,
  reducerState,    \* per spawned reducer goroutine: "spawned", "reducing",
                   \* "released", "done", or "failed"
  reducerArg,      \* per spawned reducer goroutine: the batch it passed to reduce
  summaryEmitted,  \* ld.prog.endSummary() has run
  removeCalls,     \* the directories os.RemoveAll was called on
  aclWorkload,     \* what the callers of the ACL cache pass: "none", "all", "few"
  aclCache,        \* aclCachePtr: the map and the slice its two fields point to
  aclHeap,         \* the maps and slices update has made, by the update that made them
  aclLock,         \* the RWMutex of aclCachePtr: its writer (0: none), its readers
  aclClient        \* per calling goroutine: where it is in update or
                   \* authorizePredicate, with the locals of the call

mapVars == <<scanned, scanErr, rdfCh, rdfClosed, postingsCh, postingsClosed,
             mapperState, mapperCur, mapped, mapperWg>>
writerVars == <<postingWriterWg, writerState, writerBuf, runs, mapOutput>>
shuffleVars == <<readerPos, readerClosed, shuffleInputChs, mergerState, curBatch,
                 reduceCh, reduceClosed, emitted>>
reduceVars == <<batch, pending, reduceWg, reducerState, reducerArg, summaryEmitted>>
aclVars == <<aclWorkload, aclCache, aclHeap, aclLock, aclClient>>
\* what no step of the loader changes: its options and the ACL cache
envVars == <<source, numGoroutines, aclVars>>
loaderVars == <<pc, abortCause, source, numGoroutines, reporterStarted, dirs, mapVars,
                writerVars, shuffleVars, reduceVars, removeCalls>>
vars == <<pc, abortCause, envVars, reporterStarted, dirs, mapVars, writerVars,
          shuffleVars, reduceVars, removeCalls>>

(***************************************************************************)
(* Values.                                                                  *)
(***************************************************************************)
\* the temporary directory ioutil.TempDir creates
TmpPostingsDir == "bulkloader_tmp_posting_"

\* the path of the i-th Run file, and filepath.Dir of a path
RunPath(i) == <<TmpPostingsDir, i>>
Dir(path) == path[1]

\* a posting is <<line, n>>: the n-th posting of that line; its grouping key
Key(p) == p[1]
PostingLess(p, q) == p[1] < q[1] \/ (p[1] = q[1] /\ p[2] < q[2])

RECURSIVE Insert(_, _)
Insert(p, s) ==
  IF s = <<>> THEN <<p>>
  ELSE IF PostingLess(p, Head(s)) THEN <<p>> \o s
  ELSE <<Head(s)>> \o Insert(p, Tail(s))

RECURSIVE SortPostings(_)
SortPostings(s) == IF s = <<>> THEN <<>> ELSE Insert(Head(s), SortPostings(Tail(s)))

Range(s) == {s[i] : i \in 1..Len(s)}

Alive == pc # "aborted"

\* x.Check / x.Checkf on a non-nil error: log.Fatal, the process ends
Fatal(cause) ==
  /\ pc' = "aborted"
  /\ abortCause' = cause

Mappers == 1..numGoroutines

\* main: ld.mapStage(), then ld.reduceStage(), then ld.cleanup()
AfterMapStage == "reduceStage"
AfterReduceStage == "cleanup"
AfterCleanup == "done"

RECURSIVE Sum(_)
Sum(s) == IF s = <<>> THEN 0 ELSE Head(s) + Sum(Tail(s))

\* the sources of the model: up to MaxLines lines, up to MaxPostings postings in all
Sources ==
  UNION {{s \in [1..n -> 0..MaxPostings] : Sum(s) <= MaxPostings} : n \in 0..MaxLines}

\* the record transformer: the number of postings line r yields
Transform(r) == source[r]

(***************************************************************************)
(* The ACL cache (package edgraph): values and the functions of update and  *)
(* authorizePredicate. A string is the sequence of its characters.          *)
(***************************************************************************)
\* predicates: two ordinary ones and one of the predicates of the ACL data
PredName == <<"n", "a", "m", "e">>
PredNick == <<"n", "i", "c", "k">>
PredAcl == <<"d", ".", "a", "c", "l">>

\* x.IsAclPredicate
IsAclPredicate(predicate) == predicate \in {PredAcl}

GroupIDs == {"dev", "sre"}

\* acl.Operation
Read == [Name |-> "Read", Code |-> 4]
Write == [Name |-> "Write", Code |-> 2]
Operations == {Read, Write}

\* the acl.Acl rules of the model: {Predicate, Regex, Perm}
RegexN == <<"^", "n">>
RegexAm == <<"a", "m">>
RegexBad == <<"(">>
AclRules ==
  { [Predicate |-> PredName, Regex |-> <<>>,     Perm |-> 4],
    [Predicate |-> PredName, Regex |-> <<>>,     Perm |-> 2],
    [Predicate |-> PredName, Regex |-> RegexN,   Perm |-> 6],
    [Predicate |-> <<>>,     Regex |-> RegexN,   Perm |-> 4],
    [Predicate |-> <<>>,     Regex |-> RegexAm,  Perm |-> 2],
    [Predicate |-> <<>>,     Regex |-> RegexBad, Perm |-> 4],
    [Predicate |-> <<>>,     Regex |-> <<>>,     Perm |-> 4] }

\* group.Acls: a blob that is the JSON of a list of rules, or is not JSON
Blobs(k) ==
  {[valid |-> FALSE, acls |-> <<>>]} \cup
  {[valid |-> TRUE, acls |-> a] : a \in UNION {[1..n -> AclRules] : n \in 0..k}}

\* json.Unmarshal(aclBytes, &acls)
Unmarshal(blob) == [err |-> ~blob.valid, acls |-> blob.acls]

\* acl.Group values whose blob holds up to k rules
AclGroups(k) == {[GroupID |-> g, Acls |-> b] : g \in GroupIDs, b \in Blobs(k)}

\* the size of an argument of update: its groups plus the rules in their blobs
RECURSIVE AclSize(_)
AclSize(groups) ==
  IF groups = <<>> THEN 0
  ELSE 1 + Len(Head(groups).Acls.acls) + AclSize(Tail(groups))

\* the arguments of update: every list of groups of size up to MaxAclSize
GroupLists ==
  UNION {{gs \in [1..n -> AclGroups(MaxAclSize - n)] : AclSize(gs) <= MaxAclSize} :
           n \in 0..MaxAclSize}

\* two arguments of update that each set an exact rule and a regex rule
ConcGroupLists ==
  { <<[GroupID |-> "dev",
       Acls |-> [valid |-> TRUE,
                 acls |-> <<[Predicate |-> PredName, Regex |-> <<>>, Perm |-> 4],
                            [Predicate |-> <<>>, Regex |-> RegexN, Perm |-> 4]>>]]>>,
    <<[GroupID |-> "sre",
       Acls |-> [valid |-> TRUE,
                 acls |-> <<[Predicate |-> PredName, Regex |-> <<>>, Perm |-> 2],
                            [Predicate |-> <<>>, Regex |-> RegexAm, Perm |-> 2]>>]]>> }

\* the arguments of authorizePredicate
Queries ==
  [groups : {<<>>, <<"dev">>, <<"sre", "dev">>},
   predicate : {PredName, PredNick, PredAcl},
   operation : Operations]
ConcQueries ==
  {[groups |-> <<"dev">>, predicate |-> PredName, operation |-> Read],
   [groups |-> <<"sre">>, predicate |-> PredAcl, operation |-> Write]}
NoQuery == [groups |-> <<>>, predicate |-> <<>>, operation |-> [Name |-> "", Code |-> 0]]

\* regexp.Compile: the patterns of the model are a literal, after "^" one that
\* must start the string; an unclosed "(" does not compile
Compile(expr) ==
  LET anchored == IF expr = <<>> THEN FALSE ELSE Head(expr) = "^"
  IN [err |-> \E i \in 1..Len(expr) :
                /\ expr[i] = "("
                /\ ~ \E j \in (i + 1)..Len(expr) : expr[j] = ")",
      re |-> [expr |-> expr,
              anchored |-> anchored,
              lit |-> IF anchored THEN Tail(expr) ELSE expr]]

\* (*Regexp).MatchString: the literal occurs in s, at its start if anchored
MatchString(re, s) ==
  \E i \in 1..(Len(s) + 1) :
    /\ re.anchored => i = 1
    /\ i + Len(re.lit) - 1 <= Len(s)
    /\ SubSeq(s, i, i + Len(re.lit) - 1) = re.lit

\* a & b on non-negative integers
RECURSIVE BitAnd(_, _)
BitAnd(a, b) ==
  IF a = 0 \/ b = 0 THEN 0
  ELSE (a % 2) * (b % 2) + 2 * BitAnd(a \div 2, b \div 2)

\* m[k] = v on a Go map
MapPut(m, k, v) == [x \in (DOMAIN m) \cup {k} |-> IF x = k THEN v ELSE m[x]]

\* a hasRequiredAccess that asks for the permission to equal the operation code
hasExactPerm(groupPerms, groups, operation) ==
  \E i \in 1..Len(groups) :
    IF groups[i] \in DOMAIN groupPerms
    THEN groupPerms[groups[i]] = operation.Code
    ELSE FALSE

hasRequiredAccess(groupPerms, groups, operation) ==
  \E i \in 1..Len(groups) :
    IF groups[i] \in DOMAIN groupPerms
    THEN BitAnd(groupPerms[groups[i]], operation.Code) # 0
    ELSE FALSE

\* the loop over predRegexRules of authorizePredicate and what follows it
RECURSIVE RegexLoop(_, _, _, _, _, _, _)
RegexLoop(rules, i, singlePredMatch, predRegexMatch, groups, predicate, operation) ==
  IF i > Len(rules)
  THEN IF singlePredMatch \/ predRegexMatch THEN "unauthorized" ELSE "nil"
  ELSE IF MatchString(rules[i].predRegex, predicate)
       THEN IF hasRequiredAccess(rules[i].groupPerms, groups, operation)
            THEN "nil"
            ELSE RegexLoop(rules, i + 1, singlePredMatch, TRUE, groups, predicate,
                           operation)
       ELSE RegexLoop(rules, i + 1, singlePredMatch, predRegexMatch, groups, predicate,
                      operation)

\* authorizePredicate once it has read the two fields of the cache
Evaluate(predPerms, predRegexRules, groups, predicate, operation) ==
  LET singlePredMatch == predicate \in DOMAIN predPerms
      allowed == IF singlePredMatch
                 THEN hasRequiredAccess(predPerms[predicate], groups, operation)
                 ELSE FALSE
  IN IF allowed THEN "nil"
     ELSE RegexLoop(predRegexRules, 1, singlePredMatch, FALSE, groups, predicate,
                    operation)

\* the two maps update starts from
EmptyMaps == [predPerms |-> <<>>, predRegexPerms |-> <<>>]

\* the body of `for _, acl := range acls`
ApplyAcl(st, groupID, acl) ==
  IF Len(acl.Predicate) > 0
  THEN [st EXCEPT !.predPerms =
          IF acl.Predicate \in DOMAIN @
          THEN MapPut(@, acl.Predicate, MapPut(@[acl.Predicate], groupID, acl.Perm))
          ELSE MapPut(@, acl.Predicate, MapPut(<<>>, groupID, acl.Perm))]
  ELSE IF Len(acl.Regex) > 0
  THEN IF acl.Regex \in DOMAIN st.predRegexPerms
       THEN [st EXCEPT !.predRegexPerms =
               MapPut(@, acl.Regex,
                      [@[acl.Regex] EXCEPT !.groupPerms = MapPut(@, groupID, acl.Perm)])]
       ELSE IF Compile(acl.Regex).err
       THEN st
       ELSE [st EXCEPT !.predRegexPerms =
               MapPut(@, acl.Regex,
                      [predRegex |-> Compile(acl.Regex).re,
                       groupPerms |-> MapPut(<<>>, groupID, acl.Perm)])]
  ELSE st

RECURSIVE ApplyAcls(_, _, _)
ApplyAcls(st, groupID, acls) ==
  IF acls = <<>> THEN st
  ELSE ApplyAcls(ApplyAcl(st, groupID, Head(acls)), groupID, Tail(acls))

\* `for _, group := range groups`: a blob that does not unmarshal is skipped
RECURSIVE ApplyGroups(_, _)
ApplyGroups(st, groups) ==
  IF groups = <<>> THEN st
  ELSE LET group == Head(groups)
           parsed == Unmarshal(group.Acls)
       IN ApplyGroups(IF parsed.err THEN st
                      ELSE ApplyAcls(st, group.GroupID, parsed.acls),
                      Tail(groups))

\* the slices `for _, predRegexRule := range predRegexPerms` can build: the
\* rules of the map, each once, in any order
Slices(predRegexPerms) ==
  LET keys == DOMAIN predRegexPerms
      n == Cardinality(keys)
  IN {[i \in 1..n |-> predRegexPerms[s[i]]] :
        s \in {t \in [1..n -> keys] : \A i, j \in 1..n : t[i] = t[j] => i = j}}

\* the cache before the first update: an empty map and an empty slice
InitialMaps == [predPerms |-> <<>>, predRegexRules |-> <<>>]

\* a goroutine of the server between two calls
IdleClient ==
  [pc |-> "idle", groups |-> <<>>, new |-> 0, query |-> NoQuery,
   snap |-> [predPerms |-> 0, predRegexRules |-> 0], result |-> ""]

(***************************************************************************)
(* The state before main calls newLoader: any source of up to MaxLines      *)
(* lines and any worker-pool width.                                         *)
(***************************************************************************)
\* nobody calls into the ACL cache: it stays as it was made
NoAcl ==
  /\ aclWorkload = "none"
  /\ aclCache = [predPerms |-> 1, predRegexRules |-> 1]
  /\ aclHeap = <<InitialMaps>>
  /\ aclLock = [writer |-> 0, readers |-> {}]
  /\ aclClient = <<>>

\* the loader before main calls newLoader
NotStarted ==
  /\ pc = "newLoader"
  /\ abortCause = ""
  /\ reporterStarted = FALSE
  /\ dirs = {}
  /\ scanned = 0
  /\ scanErr = FALSE
  /\ rdfCh = <<>> /\ rdfClosed = FALSE
  /\ postingsCh = <<>> /\ postingsClosed = FALSE
  /\ mapperState = [m \in 1..numGoroutines |-> "unstarted"]
  /\ mapperCur = [m \in 1..numGoroutines |-> <<0, 0>>]
  /\ mapped = [r \in 1..Len(source) |-> 0]
  /\ mapperWg = 0
  /\ postingWriterWg = 0
  /\ writerState = "unstarted"
  /\ writerBuf = <<>>
  /\ runs = <<>>
  /\ mapOutput = <<>>
  /\ readerPos = <<>>
  /\ readerClosed = <<>>
  /\ shuffleInputChs = <<>>
  /\ mergerState = "unstarted"
  /\ curBatch = <<>>
  /\ reduceCh = <<>> /\ reduceClosed = FALSE
  /\ emitted = <<>>
  /\ batch = <<>>
  /\ pending = 0
  /\ reduceWg = 0
  /\ reducerState = <<>>
  /\ reducerArg = <<>>
  /\ summaryEmitted = FALSE
  /\ removeCalls = {}

Init ==
  /\ source \in Sources
  /\ numGoroutines \in 1..MaxGoroutines
  /\ NotStarted
  /\ NoAcl

(***************************************************************************)
(* newLoader and mapStage, the main goroutine.                              *)
(***************************************************************************)
\* a newLoader that starts the progress reporter before it checks the schema
NewLoaderReportFirst ==
  /\ pc = "newLoader"
  /\ reporterStarted' = TRUE
  /\ \E outcome \in {"ok", "schema_read", "schema_parse"} :
       IF outcome = "ok" THEN pc' = "report" /\ UNCHANGED abortCause
       ELSE Fatal(outcome)
  /\ UNCHANGED <<envVars, dirs, mapVars, writerVars, shuffleVars, reduceVars, removeCalls>>

\* newLoader: read the schema file, parse it, build the state and the mappers
NewLoader ==
  /\ pc = "newLoader"
  /\ \E outcome \in {"ok", "schema_read", "schema_parse"} :
       IF outcome = "ok" THEN pc' = "report" /\ UNCHANGED abortCause
       ELSE Fatal(outcome)
  /\ UNCHANGED <<envVars, reporterStarted, dirs, mapVars, writerVars, shuffleVars,
                 reduceVars, removeCalls>>

\* go ld.prog.report()
GoReport ==
  /\ pc = "report"
  /\ reporterStarted' = TRUE
  /\ pc' = "tempDir"
  /\ UNCHANGED <<abortCause, envVars, dirs, mapVars, writerVars, shuffleVars,
                 reduceVars, removeCalls>>

\* postingWriterWg.Add(1); ioutil.TempDir; x.Check(err)
TempDir ==
  /\ pc = "tempDir"
  /\ postingWriterWg' = postingWriterWg + 1
  /\ \E ok \in BOOLEAN :
       IF ok THEN /\ dirs' = dirs \cup {TmpPostingsDir}
                  /\ pc' = "goWriter"
                  /\ UNCHANGED abortCause
       ELSE Fatal("tempdir") /\ UNCHANGED dirs
  /\ UNCHANGED <<envVars, reporterStarted, mapVars, writerState, writerBuf, runs,
                 mapOutput, shuffleVars, reduceVars, removeCalls>>

\* go func() { ld.mapOutput = writeMapOutput(...); postingWriterWg.Done() }()
GoWriter ==
  /\ pc = "goWriter"
  /\ writerState' = "running"
  /\ pc' = "open"
  /\ UNCHANGED <<abortCause, envVars, reporterStarted, dirs, mapVars, postingWriterWg,
                 writerBuf, runs, mapOutput, shuffleVars, reduceVars, removeCalls>>

\* os.Open(ld.opt.rdfFile); x.Checkf(err, "Could not read RDF file.")
OpenSource ==
  /\ pc = "open"
  /\ \E ok \in BOOLEAN :
       IF ok THEN pc' = "goMappers" /\ UNCHANGED abortCause
       ELSE Fatal("open")
  /\ UNCHANGED <<envVars, reporterStarted, dirs, mapVars, writerVars, shuffleVars,
                 reduceVars, removeCalls>>

\* a mapStage that adds one more to mapperWg than it starts mappers
GoMappersAddOneMore ==
  /\ pc = "goMappers"
  /\ mapperWg' = mapperWg + numGoroutines + 1
  /\ mapperState' = [m \in Mappers |-> "recv"]
  /\ pc' = "newScanner"
  /\ UNCHANGED <<abortCause, envVars, reporterStarted, dirs, scanned, scanErr, rdfCh,
                 rdfClosed, postingsCh, postingsClosed, mapperCur, mapped, writerVars,
                 shuffleVars, reduceVars, removeCalls>>

\* mapperWg.Add(len(ld.mappers)); for each mapper: go func(m) { m.run(); mapperWg.Done() }
GoMappers ==
  /\ pc = "goMappers"
  /\ mapperWg' = mapperWg + numGoroutines
  /\ mapperState' = [m \in Mappers |-> "recv"]
  /\ pc' = "newScanner"
  /\ UNCHANGED <<abortCause, envVars, reporterStarted, dirs, scanned, scanErr, rdfCh,
                 rdfClosed, postingsCh, postingsClosed, mapperCur, mapped, writerVars,
                 shuffleVars, reduceVars, removeCalls>>

\* the scanner: over the file, or over gzip.NewReader(f) for a ".gz" path
NewScanner ==
  /\ pc = "newScanner"
  /\ \E gz \in BOOLEAN, ok \in BOOLEAN :
       IF gz /\ ~ok THEN Fatal("gzip")
       ELSE pc' = "scan" /\ UNCHANGED abortCause
  /\ UNCHANGED <<envVars, reporterStarted, dirs, mapVars, writerVars, shuffleVars,
                 reduceVars, removeCalls>>

\* one turn of `for sc.Scan() { ld.rdfCh <- sc.Text() }`: blocks while rdfCh is full
ScanSend ==
  /\ pc = "scan"
  /\ scanned < Len(source)
  /\ Len(rdfCh) < QueueCap
  /\ scanned' = scanned + 1
  /\ rdfCh' = Append(rdfCh, scanned + 1)
  /\ UNCHANGED <<pc, abortCause, envVars, reporterStarted, dirs, scanErr, rdfClosed,
                 postingsCh, postingsClosed, mapperState, mapperCur, mapped, mapperWg,
                 writerVars, shuffleVars, reduceVars, removeCalls>>

\* sc.Scan() returns false: at the end of the source, or at a read error anywhere
ScanStop ==
  /\ pc = "scan"
  /\ \E err \in BOOLEAN :
       /\ (~err) => scanned = Len(source)
       /\ scanErr' = err
  /\ pc' = "checkErr"
  /\ UNCHANGED <<abortCause, envVars, reporterStarted, dirs, scanned, rdfCh, rdfClosed,
                 postingsCh, postingsClosed, mapperState, mapperCur, mapped, mapperWg,
                 writerVars, shuffleVars, reduceVars, removeCalls>>

\* a mapStage that drops the scanner's error
CheckScanErrIgnored ==
  /\ pc = "checkErr"
  /\ pc' = "closeRdfCh"
  /\ UNCHANGED <<abortCause, envVars, reporterStarted, dirs, mapVars, writerVars,
                 shuffleVars, reduceVars, removeCalls>>

\* x.Check(sc.Err())
CheckScanErr ==
  /\ pc = "checkErr"
  /\ IF scanErr THEN Fatal("scan") ELSE pc' = "closeRdfCh" /\ UNCHANGED abortCause
  /\ UNCHANGED <<envVars, reporterStarted, dirs, mapVars, writerVars, shuffleVars,
                 reduceVars, removeCalls>>

\* a mapStage that closes postingsCh together with rdfCh, before the mappers
\* are joined
CloseBothChannels ==
  /\ pc = "closeRdfCh"
  /\ rdfClosed' = TRUE
  /\ postingsClosed' = TRUE
  /\ pc' = "mapperWait"
  /\ UNCHANGED <<abortCause, envVars, reporterStarted, dirs, scanned, scanErr, rdfCh,
                 postingsCh, mapperState, mapperCur, mapped, mapperWg,
                 writerVars, shuffleVars, reduceVars, removeCalls>>

\* close(ld.rdfCh)
CloseRdfCh ==
  /\ pc = "closeRdfCh"
  /\ rdfClosed' = TRUE
  /\ pc' = "mapperWait"
  /\ UNCHANGED <<abortCause, envVars, reporterStarted, dirs, scanned, scanErr, rdfCh,
                 postingsCh, postingsClosed, mapperState, mapperCur, mapped, mapperWg,
                 writerVars, shuffleVars, reduceVars, removeCalls>>

\* a mapStage that does not join the mappers before it goes on
MapperWgWaitNoJoin ==
  /\ pc = "mapperWait"
  /\ pc' = "closePostingsCh"
  /\ UNCHANGED <<abortCause, envVars, reporterStarted, dirs, mapVars, writerVars,
                 shuffleVars, reduceVars, removeCalls>>

\* a mapStage that goes on as soon as one mapper is done
MapperWgWaitAny ==
  /\ pc = "mapperWait"
  /\ mapperWg < numGoroutines
  /\ pc' = "closePostingsCh"
  /\ UNCHANGED <<abortCause, envVars, reporterStarted, dirs, mapVars, writerVars,
                 shuffleVars, reduceVars, removeCalls>>

\* mapperWg.Wait()
MapperWgWait ==
  /\ pc = "mapperWait"
  /\ mapperWg = 0
  /\ pc' = "closePostingsCh"
  /\ UNCHANGED <<abortCause, envVars, reporterStarted, dirs, mapVars, writerVars,
                 shuffleVars, reduceVars, removeCalls>>

\* close(ld.postingsCh)
ClosePostingsCh ==
  /\ pc = "closePostingsCh"
  /\ postingsClosed' = TRUE
  /\ pc' = "writerWait"
  /\ UNCHANGED <<abortCause, envVars, reporterStarted, dirs, scanned, scanErr, rdfCh,
                 rdfClosed, postingsCh, mapperState, mapperCur, mapped, mapperWg,
                 writerVars, shuffleVars, reduceVars, removeCalls>>

\* a mapStage that returns without joining the Spill Writer
PostingWriterWgNoJoin ==
  /\ pc = "writerWait"
  /\ pc' = AfterMapStage
  /\ UNCHANGED <<abortCause, envVars, reporterStarted, dirs, mapVars, writerVars,
                 shuffleVars, reduceVars, removeCalls>>

\* postingWriterWg.Wait(); mapStage returns and main calls reduceStage
PostingWriterWgWait ==
  /\ pc = "writerWait"
  /\ postingWriterWg = 0
  /\ pc' = AfterMapStage
  /\ UNCHANGED <<abortCause, envVars, reporterStarted, dirs, mapVars, writerVars,
                 shuffleVars, reduceVars, removeCalls>>

(***************************************************************************)
(* The mapper goroutines: m.run() is `for rdf := range rdfCh`, each line    *)
(* transformed into zero or more postings sent on postingsCh.               *)
(***************************************************************************)
\* dequeue one line and transform it
MapperRecv(m) ==
  /\ Alive
  /\ mapperState[m] = "recv"
  /\ rdfCh # <<>>
  /\ rdfCh' = Tail(rdfCh)
  /\ mapped' = [mapped EXCEPT ![Head(rdfCh)] = @ + 1]
  /\ LET k == Transform(Head(rdfCh))
     IN /\ mapperCur' = [mapperCur EXCEPT ![m] = IF k = 0 THEN <<0, 0>> ELSE <<Head(rdfCh), k>>]
        /\ mapperState' = [mapperState EXCEPT ![m] = IF k = 0 THEN "recv" ELSE "emit"]
  /\ UNCHANGED <<pc, abortCause, envVars, reporterStarted, dirs, scanned, scanErr,
                 rdfClosed, postingsCh, postingsClosed, mapperWg, writerVars,
                 shuffleVars, reduceVars, removeCalls>>

\* enqueue the next posting of the current line; blocks while postingsCh is full
MapperEmit(m) ==
  /\ Alive
  /\ mapperState[m] = "emit"
  /\ Len(postingsCh) < QueueCap
  /\ postingsCh' = Append(postingsCh, mapperCur[m])
  /\ mapperCur' = [mapperCur EXCEPT ![m] = IF @[2] = 1 THEN <<0, 0>> ELSE <<@[1], @[2] - 1>>]
  /\ mapperState' = [mapperState EXCEPT ![m] = IF mapperCur[m][2] = 1 THEN "recv" ELSE "emit"]
  /\ UNCHANGED <<pc, abortCause, envVars, reporterStarted, dirs, scanned, scanErr, rdfCh,
                 rdfClosed, postingsClosed, mapped, mapperWg, writerVars, shuffleVars,
                 reduceVars, removeCalls>>

\* rdfCh is closed and drained: m.run() returns, then mapperWg.Done()
MapperExit(m) ==
  /\ Alive
  /\ mapperState[m] = "recv"
  /\ rdfCh = <<>> /\ rdfClosed
  /\ mapperState' = [mapperState EXCEPT ![m] = "done"]
  /\ mapperWg' = mapperWg - 1
  /\ UNCHANGED <<pc, abortCause, envVars, reporterStarted, dirs, scanned, scanErr, rdfCh,
                 rdfClosed, postingsCh, postingsClosed, mapperCur, mapped, writerVars,
                 shuffleVars, reduceVars, removeCalls>>

(***************************************************************************)
(* The Spill Writer goroutine: writeMapOutput drains postingsCh, spills     *)
(* sorted Runs into the temporary directory and returns their paths.        *)
(***************************************************************************)
WriterRecv ==
  /\ Alive
  /\ writerState = "running"
  /\ postingsCh # <<>>
  /\ writerBuf' = Append(writerBuf, Head(postingsCh))
  /\ postingsCh' = Tail(postingsCh)
  /\ UNCHANGED <<pc, abortCause, envVars, reporterStarted, dirs, scanned, scanErr, rdfCh,
                 rdfClosed, postingsClosed, mapperState, mapperCur, mapped, mapperWg,
                 postingWriterWg, writerState, runs, mapOutput, shuffleVars, reduceVars,
                 removeCalls>>

\* the writer decides on its own when a buffer becomes a Run
WriterSpill ==
  /\ Alive
  /\ writerState = "running"
  /\ writerBuf # <<>>
  /\ runs' = Append(runs, SortPostings(writerBuf))
  /\ writerBuf' = <<>>
  /\ UNCHANGED <<pc, abortCause, envVars, reporterStarted, dirs, mapVars, postingWriterWg,
                 writerState, mapOutput, shuffleVars, reduceVars, removeCalls>>

\* postingsCh is closed and drained: the last buffer is spilled, writeMapOutput
\* returns, ld.mapOutput is assigned, postingWriterWg.Done()
WriterReturn ==
  /\ Alive
  /\ writerState = "running"
  /\ postingsCh = <<>> /\ postingsClosed
  /\ LET final == IF writerBuf = <<>> THEN runs
                  ELSE Append(runs, SortPostings(writerBuf))
     IN /\ runs' = final
        /\ mapOutput' = [i \in 1..Len(final) |-> RunPath(i)]
  /\ writerBuf' = <<>>
  /\ writerState' = "done"
  /\ postingWriterWg' = postingWriterWg - 1
  /\ UNCHANGED <<pc, abortCause, envVars, reporterStarted, dirs, mapVars, shuffleVars,
                 reduceVars, removeCalls>>

MapNext ==
  \/ NewLoader \/ GoReport \/ TempDir \/ GoWriter \/ OpenSource \/ GoMappers
  \/ NewScanner \/ ScanSend \/ ScanStop \/ CheckScanErr \/ CloseRdfCh
  \/ MapperWgWait \/ ClosePostingsCh \/ PostingWriterWgWait
  \/ \E m \in Mappers : MapperRecv(m) \/ MapperEmit(m) \/ MapperExit(m)
  \/ WriterRecv \/ WriterSpill \/ WriterReturn

(***************************************************************************)
(* reduceStage, the main goroutine.                                         *)
(***************************************************************************)
\* a reduceStage that starts the readers and not the Merger
StartShuffleNoMerger ==
  /\ pc = "reduceStage"
  /\ readerPos' = [i \in 1..Len(mapOutput) |-> 1]
  /\ readerClosed' = [i \in 1..Len(mapOutput) |-> FALSE]
  /\ shuffleInputChs' = [i \in 1..Len(mapOutput) |-> <<>>]
  /\ pc' = "dispatchRecv"
  /\ UNCHANGED <<abortCause, envVars, reporterStarted, dirs, mapVars, writerVars,
                 mergerState, curBatch, reduceCh, reduceClosed, emitted, reduceVars,
                 removeCalls>>

\* a reduceStage whose loop over ld.mapOutput leaves out the last Run
StartShuffleSkipLast ==
  /\ pc = "reduceStage"
  /\ readerPos' = [i \in 1..(Len(mapOutput) - 1) |-> 1]
  /\ readerClosed' = [i \in 1..(Len(mapOutput) - 1) |-> FALSE]
  /\ shuffleInputChs' = [i \in 1..(Len(mapOutput) - 1) |-> <<>>]
  /\ mergerState' = "running"
  /\ pc' = "dispatchRecv"
  /\ UNCHANGED <<abortCause, envVars, reporterStarted, dirs, mapVars, writerVars,
                 curBatch, reduceCh, reduceClosed, emitted, reduceVars, removeCalls>>

\* one channel and one readMapOutput goroutine per path of ld.mapOutput, then
\* reduceCh and go shufflePostings(...)
StartShuffle ==
  /\ pc = "reduceStage"
  /\ readerPos' = [i \in 1..Len(mapOutput) |-> 1]
  /\ readerClosed' = [i \in 1..Len(mapOutput) |-> FALSE]
  /\ shuffleInputChs' = [i \in 1..Len(mapOutput) |-> <<>>]
  /\ mergerState' = "running"
  /\ pc' = "dispatchRecv"
  /\ UNCHANGED <<abortCause, envVars, reporterStarted, dirs, mapVars, writerVars,
                 curBatch, reduceCh, reduceClosed, emitted, reduceVars, removeCalls>>

\* `for batch := range reduceCh`: the next batch is received into the loop variable
DispatchRecv ==
  /\ pc = "dispatchRecv"
  /\ reduceCh # <<>>
  /\ batch' = Head(reduceCh)
  /\ reduceCh' = Tail(reduceCh)
  /\ pc' = "acquire"
  /\ UNCHANGED <<abortCause, envVars, reporterStarted, dirs, mapVars, writerVars,
                 readerPos, readerClosed, shuffleInputChs, mergerState, curBatch,
                 reduceClosed, emitted, pending, reduceWg, reducerState, reducerArg,
                 summaryEmitted, removeCalls>>

\* a reduceStage that goes from the end of the loop to the summary without
\* reduceWg.Wait()
DispatchEndSkipsWait ==
  /\ pc = "dispatchRecv"
  /\ reduceCh = <<>> /\ reduceClosed
  /\ pc' = "endSummary"
  /\ UNCHANGED <<abortCause, envVars, reporterStarted, dirs, mapVars, writerVars,
                 shuffleVars, reduceVars, removeCalls>>

\* reduceCh is closed and drained: the loop ends
DispatchEnd ==
  /\ pc = "dispatchRecv"
  /\ reduceCh = <<>> /\ reduceClosed
  /\ pc' = "reduceWait"
  /\ UNCHANGED <<abortCause, envVars, reporterStarted, dirs, mapVars, writerVars,
                 shuffleVars, reduceVars, removeCalls>>

\* a dispatch loop that spawns without waiting for a free slot of pending
AcquireUnbounded ==
  /\ pc = "acquire"
  /\ pending' = pending + 1
  /\ reduceWg' = reduceWg + 1
  /\ reducerState' = Append(reducerState, "spawned")
  /\ reducerArg' = Append(reducerArg, <<>>)
  /\ pc' = "dispatchRecv"
  /\ UNCHANGED <<abortCause, envVars, reporterStarted, dirs, mapVars, writerVars,
                 shuffleVars, batch, summaryEmitted, removeCalls>>

\* pending <- struct{}{} (blocks while numGoroutines tokens are in the channel);
\* reduceWg.Add(1); go func() { ... }()
Acquire ==
  /\ pc = "acquire"
  /\ pending < numGoroutines
  /\ pending' = pending + 1
  /\ reduceWg' = reduceWg + 1
  /\ reducerState' = Append(reducerState, "spawned")
  /\ reducerArg' = Append(reducerArg, <<>>)
  /\ pc' = "dispatchRecv"
  /\ UNCHANGED <<abortCause, envVars, reporterStarted, dirs, mapVars, writerVars,
                 shuffleVars, batch, summaryEmitted, removeCalls>>

\* a reduceStage that does not join the reducer goroutines
ReduceWgNoJoin ==
  /\ pc = "reduceWait"
  /\ pc' = "endSummary"
  /\ UNCHANGED <<abortCause, envVars, reporterStarted, dirs, mapVars, writerVars,
                 shuffleVars, reduceVars, removeCalls>>

\* reduceWg.Wait()
ReduceWgWait ==
  /\ pc = "reduceWait"
  /\ reduceWg = 0
  /\ pc' = "endSummary"
  /\ UNCHANGED <<abortCause, envVars, reporterStarted, dirs, mapVars, writerVars,
                 shuffleVars, reduceVars, removeCalls>>

\* ld.prog.endSummary(); reduceStage returns and main calls cleanup
EndSummary ==
  /\ pc = "endSummary"
  /\ summaryEmitted' = TRUE
  /\ pc' = AfterReduceStage
  /\ UNCHANGED <<abortCause, envVars, reporterStarted, dirs, mapVars, writerVars,
                 shuffleVars, batch, pending, reduceWg, reducerState, reducerArg,
                 removeCalls>>

(***************************************************************************)
(* The reducer goroutines: func() { reduce(batch, ld.prog); <-pending;      *)
(* reduceWg.Done() }. The closure shares the loop variable batch.           *)
(***************************************************************************)
Reducers == 1..Len(reducerState)

\* the call reduce(batch, ld.prog): its argument is the loop variable as it is now
ReduceCall(w) ==
  /\ Alive
  /\ reducerState[w] = "spawned"
  /\ reducerArg' = [reducerArg EXCEPT ![w] = batch]
  /\ reducerState' = [reducerState EXCEPT ![w] = "reducing"]
  /\ UNCHANGED <<pc, abortCause, envVars, reporterStarted, dirs, mapVars, writerVars,
                 shuffleVars, batch, pending, reduceWg, summaryEmitted, removeCalls>>

\* a reducer goroutine that forgets <-pending
ReduceReturnNoRelease(w) ==
  /\ Alive
  /\ reducerState[w] = "reducing"
  /\ \E ok \in BOOLEAN :
       IF ok THEN /\ reducerState' = [reducerState EXCEPT ![w] = "released"]
                  /\ UNCHANGED <<pc, abortCause>>
       ELSE /\ Fatal("reduce")
            /\ reducerState' = [reducerState EXCEPT ![w] = "failed"]
  /\ UNCHANGED <<envVars, reporterStarted, dirs, mapVars, writerVars, shuffleVars, batch,
                 pending, reduceWg, reducerArg, summaryEmitted, removeCalls>>

\* reduce returns, then <-pending (its own token is in the channel, so the
\* receive does not block); a failure inside reduce is a fatal check or a panic
\* that nothing recovers, and either ends the process before the receive
ReduceReturn(w) ==
  /\ Alive
  /\ reducerState[w] = "reducing"
  /\ \E ok \in BOOLEAN :
       IF ok THEN /\ pending > 0
                  /\ pending' = pending - 1
                  /\ reducerState' = [reducerState EXCEPT ![w] = "released"]
                  /\ UNCHANGED <<pc, abortCause>>
       ELSE /\ Fatal("reduce")
            /\ reducerState' = [reducerState EXCEPT ![w] = "failed"]
            /\ UNCHANGED pending
  /\ UNCHANGED <<envVars, reporterStarted, dirs, mapVars, writerVars, shuffleVars, batch,
                 reduceWg, reducerArg, summaryEmitted, removeCalls>>

\* reduceWg.Done()
ReducerDone(w) ==
  /\ Alive
  /\ reducerState[w] = "released"
  /\ reduceWg' = reduceWg - 1
  /\ reducerState' = [reducerState EXCEPT ![w] = "done"]
  /\ UNCHANGED <<pc, abortCause, envVars, reporterStarted, dirs, mapVars, writerVars,
                 shuffleVars, batch, pending, reducerArg, summaryEmitted, removeCalls>>

(***************************************************************************)
(* The Spill Readers (readMapOutput) and the Merger (shufflePostings).      *)
(***************************************************************************)
Readers == 1..Len(readerPos)

\* the Run file a reader reads
RunOf(i) == runs[mapOutput[i][2]]

\* send the next posting of the Run (blocks while the channel is full); after
\* the last one the reader closes its channel
ReaderSend(i) ==
  /\ Alive
  /\ ~readerClosed[i]
  /\ readerPos[i] <= Len(RunOf(i))
  /\ Len(shuffleInputChs[i]) < QueueCap
  /\ IF Dir(mapOutput[i]) \in dirs
     THEN /\ shuffleInputChs' = [shuffleInputChs EXCEPT ![i] = Append(@, RunOf(i)[readerPos[i]])]
          /\ readerPos' = [readerPos EXCEPT ![i] = @ + 1]
          /\ readerClosed' = [readerClosed EXCEPT ![i] = (readerPos[i] = Len(RunOf(i)))]
          /\ UNCHANGED <<pc, abortCause>>
     ELSE Fatal("run_missing") /\ UNCHANGED <<shuffleInputChs, readerPos, readerClosed>>
  /\ UNCHANGED <<envVars, reporterStarted, dirs, mapVars, writerVars,
                 mergerState, curBatch, reduceCh, reduceClosed, emitted, reduceVars,
                 removeCalls>>

\* a k-way merge can choose only when every input has a head or is closed
MergerReady == \A i \in Readers : shuffleInputChs[i] # <<>> \/ readerClosed[i]
Heads == {i \in Readers : shuffleInputChs[i] # <<>>}
MinHead ==
  CHOOSE i \in Heads : \A j \in Heads \ {i} :
    PostingLess(Head(shuffleInputChs[i]), Head(shuffleInputChs[j]))

\* the least head belongs to the batch being assembled
HeadJoinsBatch ==
  IF Heads = {} THEN FALSE
  ELSE IF curBatch = <<>> THEN TRUE
  ELSE Key(Head(shuffleInputChs[MinHead])) = Key(curBatch[1])

\* take the least head into the batch being assembled, while it has the batch's key
MergerPull ==
  /\ Alive
  /\ mergerState = "running"
  /\ MergerReady
  /\ Heads # {}
  /\ HeadJoinsBatch
  /\ curBatch' = Append(curBatch, Head(shuffleInputChs[MinHead]))
  /\ shuffleInputChs' = [shuffleInputChs EXCEPT ![MinHead] = Tail(@)]
  /\ UNCHANGED <<pc, abortCause, envVars, reporterStarted, dirs, mapVars, writerVars,
                 readerPos, readerClosed, mergerState, reduceCh, reduceClosed, emitted,
                 reduceVars, removeCalls>>

\* the batch is complete: send it on reduceCh; blocks while reduceCh is full
MergerEmit ==
  /\ Alive
  /\ mergerState = "running"
  /\ MergerReady
  /\ curBatch # <<>>
  /\ ~HeadJoinsBatch
  /\ Len(reduceCh) < ReduceChCap
  /\ reduceCh' = Append(reduceCh, curBatch)
  /\ emitted' = Append(emitted, curBatch)
  /\ curBatch' = <<>>
  /\ UNCHANGED <<pc, abortCause, envVars, reporterStarted, dirs, mapVars, writerVars,
                 readerPos, readerClosed, shuffleInputChs, mergerState, reduceClosed,
                 reduceVars, removeCalls>>

\* every input is closed and drained: close(reduceCh)
MergerClose ==
  /\ Alive
  /\ mergerState = "running"
  /\ MergerReady
  /\ Heads = {}
  /\ curBatch = <<>>
  /\ reduceClosed' = TRUE
  /\ mergerState' = "done"
  /\ UNCHANGED <<pc, abortCause, envVars, reporterStarted, dirs, mapVars, writerVars,
                 readerPos, readerClosed, shuffleInputChs, curBatch, reduceCh, emitted,
                 reduceVars, removeCalls>>

(***************************************************************************)
(* cleanup.                                                                 *)
(***************************************************************************)
\* a cleanup whose test is off by one: len(ld.mapOutput) > 1
CleanupOffByOne ==
  /\ pc = "cleanup"
  /\ IF Len(mapOutput) > 1
     THEN /\ removeCalls' = removeCalls \cup {Dir(mapOutput[1])}
          /\ \E ok \in BOOLEAN :
               IF ok THEN /\ dirs' = dirs \ {Dir(mapOutput[1])}
                          /\ pc' = AfterCleanup
                          /\ UNCHANGED abortCause
               ELSE Fatal("removeall") /\ UNCHANGED dirs
     ELSE /\ pc' = AfterCleanup
          /\ UNCHANGED <<abortCause, dirs, removeCalls>>
  /\ UNCHANGED <<envVars, reporterStarted, mapVars, writerVars, shuffleVars, reduceVars>>

\* if len(ld.mapOutput) > 0 { x.Check(os.RemoveAll(filepath.Dir(ld.mapOutput[0]))) }
Cleanup ==
  /\ pc = "cleanup"
  /\ IF Len(mapOutput) > 0
     THEN /\ removeCalls' = removeCalls \cup {Dir(mapOutput[1])}
          /\ \E ok \in BOOLEAN :
               IF ok THEN /\ dirs' = dirs \ {Dir(mapOutput[1])}
                          /\ pc' = AfterCleanup
                          /\ UNCHANGED abortCause
               ELSE Fatal("removeall") /\ UNCHANGED dirs
     ELSE /\ pc' = AfterCleanup
          /\ UNCHANGED <<abortCause, dirs, removeCalls>>
  /\ UNCHANGED <<envVars, reporterStarted, mapVars, writerVars, shuffleVars, reduceVars>>

ReduceNext ==
  \/ StartShuffle \/ DispatchRecv \/ DispatchEnd \/ Acquire \/ ReduceWgWait \/ EndSummary
  \/ \E w \in Reducers : ReduceCall(w) \/ ReduceReturn(w) \/ ReducerDone(w)
  \/ \E i \in Readers : ReaderSend(i)
  \/ MergerPull \/ MergerEmit \/ MergerClose
  \/ Cleanup

(***************************************************************************)
(* The goroutines, for the fairness of the scheduler.                       *)
(***************************************************************************)
MainNext ==
  \/ NewLoader \/ GoReport \/ TempDir \/ GoWriter \/ OpenSource \/ GoMappers
  \/ NewScanner \/ ScanSend \/ ScanStop \/ CheckScanErr \/ CloseRdfCh
  \/ MapperWgWait \/ ClosePostingsCh \/ PostingWriterWgWait
  \/ StartShuffle \/ DispatchRecv \/ DispatchEnd \/ Acquire \/ ReduceWgWait \/ EndSummary
  \/ Cleanup
MapperNext(m) == m \in Mappers /\ (MapperRecv(m) \/ MapperEmit(m) \/ MapperExit(m))
WriterNext == WriterRecv \/ WriterSpill \/ WriterReturn
ReaderNext(i) == i \in Readers /\ ReaderSend(i)
MergerNext == MergerPull \/ MergerEmit \/ MergerClose
ReducerNext(w) == w \in Reducers /\ (ReduceCall(w) \/ ReduceReturn(w) \/ ReducerDone(w))

Next == MapNext \/ ReduceNext

Spec == Init /\ [][Next]_vars

\* every goroutine that can run is eventually run
LiveSpec ==
  /\ Spec
  /\ WF_vars(MainNext)
  /\ WF_vars(WriterNext)
  /\ WF_vars(MergerNext)
  /\ \A m \in 1..MaxGoroutines : WF_vars(MapperNext(m))
  /\ \A i \in 1..MaxPostings : WF_vars(ReaderNext(i))
  /\ \A w \in 1..MaxPostings : WF_vars(ReducerNext(w))

(***************************************************************************)
(* Properties.                                                              *)
(***************************************************************************)
\* the reasons the process can end for once mapStage has returned
LateCauses == {"reduce", "run_missing", "removeall"}

MapStageReturned ==
  \/ pc \in {"reduceStage", "dispatchRecv", "acquire", "reduceWait", "endSummary",
             "cleanup", "done"}
  \/ pc = "aborted" /\ abortCause \in LateCauses

ReduceStageReturned == pc \in {"cleanup", "done"} \/ abortCause = "removeall"

Count(x, s) == Cardinality({i \in 1..Len(s) : s[i] = x})

\* reducer goroutines inside reduce, and those that still hold their token
Active == Cardinality({w \in Reducers : reducerState[w] = "reducing"})
Holding == Cardinality({w \in Reducers : reducerState[w] \in {"spawned", "reducing"}})
Failed == {w \in Reducers : reducerState[w] = "failed"}

\* C1: every line put on rdfCh is dequeued by one mapper, once: a line is never
\* dequeued twice, a scanned line is either still queued or was dequeued, and when
\* mapStage has returned the mappers have dequeued every line of the source once.
C1_RecordsDeliveredOnce ==
  /\ \A r \in 1..Len(source) :
       /\ mapped[r] <= 1
       /\ Count(r, rdfCh) <= 1
       /\ (r <= scanned) <=> (mapped[r] + Count(r, rdfCh) = 1)
  /\ MapStageReturned =>
       /\ \A r \in 1..Len(source) : mapped[r] = 1
       /\ Sum(mapped) = Len(source)

\* mapStage has returned for a source of several lines read by several mappers
C1_Witness ==
  /\ pc = "reduceStage"
  /\ Len(source) >= 2
  /\ numGoroutines >= 2
  /\ Sum(mapped) = Len(source)

\* C2 (as claimed): when reduceStage has returned, the batches passed to reduce are,
\* as a multiset, the batches the Merger emitted.
C2_EveryBatchReducedOnce ==
  ReduceStageReturned =>
    \A b \in Range(emitted) \cup Range(reducerArg) :
      Count(b, emitted) = Count(b, reducerArg)

\* C3: the pending channel never holds more than numGoroutines tokens, and the
\* goroutines inside reduce are never more than the tokens outstanding.
C3_LimiterBound ==
  /\ pending <= numGoroutines
  /\ Active <= pending
  /\ Active <= numGoroutines

\* the limiter is full, every token holder is inside reduce, and the dispatch loop
\* holds a further batch it cannot yet spawn for
C3_Witness ==
  /\ pc = "acquire"
  /\ pending = numGoroutines
  /\ Active = numGoroutines

C5_MapBeforeReduce ==
  /\ postingsClosed => \A m \in Mappers : mapperState[m] = "done"
  /\ MapStageReturned =>
       /\ \A m \in Mappers : mapperState[m] = "done"
       /\ writerState = "done"
       /\ mapOutput = [i \in 1..Len(runs) |-> RunPath(i)]
       /\ Sum([i \in 1..Len(runs) |-> Len(runs[i])]) = Sum(source)
  /\ (mergerState # "unstarted" \/ readerPos # <<>> \/ reducerState # <<>>) =>
       /\ MapStageReturned
       /\ Len(readerPos) = Len(runs)

\* the Merger runs over two Runs that two mappers and the writer produced
C5_Witness ==
  /\ mergerState = "running"
  /\ Len(readerPos) = 2
  /\ numGoroutines = 2

\* the reduce phase is over: reduceCh closed and drained, the Merger and every
\* reader done, every reducer goroutine done
ReducePhaseComplete ==
  /\ reduceClosed /\ reduceCh = <<>>
  /\ mergerState = "done"
  /\ \A i \in Readers : readerClosed[i] /\ shuffleInputChs[i] = <<>>
  /\ \A w \in Reducers : reducerState[w] = "done"
  /\ reduceWg = 0
  /\ pending = 0

\* C6: a Spill Reader reads only while reduceStage runs its dispatch loop, its Run
\* file exists as long as it reads, and cleanup is entered, and the directory
\* removed, only when the reduce phase is complete.
C6_RunsOutliveReaders ==
  /\ \A i \in Readers :
       ~readerClosed[i] =>
         /\ pc \in {"dispatchRecv", "acquire"} \/ abortCause = "reduce"
         /\ Dir(mapOutput[i]) \in dirs
  /\ (pc \in {"cleanup", "done"} \/ removeCalls # {}) => ReducePhaseComplete
  /\ (writerState # "unstarted" /\ TmpPostingsDir \notin dirs) => removeCalls # {}

\* the directory was removed after two readers and two reducer goroutines ran
C6_Witness ==
  /\ pc = "done"
  /\ removeCalls = {TmpPostingsDir}
  /\ Len(readerPos) = 2
  /\ Len(reducerState) = 2

\* C7: cleanup calls os.RemoveAll, on the temporary directory, exactly when
\* ld.mapOutput is not empty; after a cleanup with no Run the directory mapStage
\* created is still there, after one with Runs it is gone.
C7_CleanupIffRuns ==
  /\ removeCalls \subseteq {TmpPostingsDir}
  /\ removeCalls # {} => Len(mapOutput) > 0 /\ ReduceStageReturned
  /\ pc = "done" =>
       IF Len(mapOutput) > 0
       THEN removeCalls = {TmpPostingsDir} /\ TmpPostingsDir \notin dirs
       ELSE removeCalls = {} /\ TmpPostingsDir \in dirs

\* a source with lines and no posting: no Run, and the directory survives cleanup
C7_Witness ==
  /\ pc = "done"
  /\ Len(source) > 0
  /\ mapOutput = <<>>
  /\ TmpPostingsDir \in dirs

\* C8: with an empty source there is never a Run, a Spill Reader, a batch or a
\* reducer goroutine, the dispatch loop never holds a batch, and once the source
\* has been read to its end the map phase and then the reduce phase return.
C8_EmptySource ==
  /\ [](Len(source) = 0 =>
          /\ runs = <<>> /\ mapOutput = <<>>
          /\ readerPos = <<>>
          /\ emitted = <<>> /\ reduceCh = <<>>
          /\ reducerState = <<>> /\ pending = 0
          /\ pc # "acquire")
  /\ (Len(source) = 0 /\ pc = "closeRdfCh") ~> (pc = "cleanup" /\ summaryEmitted)

\* the pipeline ran to its end on an empty source
C8_Witness ==
  /\ pc = "done"
  /\ Len(source) = 0
  /\ mergerState = "done"
  /\ summaryEmitted

SetupCauses == {"schema_read", "schema_parse", "open", "gzip"}
NoRecordRead == scanned = 0 /\ rdfCh = <<>> /\ postingsCh = <<>> /\ runs = <<>>

\* C9 (as claimed): when a setup failure ends the process, no worker (progress
\* reporter, Spill Writer, mapper) has been started.
C9_NoWorkerAtSetupFailure ==
  abortCause \in SetupCauses =>
    /\ ~reporterStarted
    /\ writerState = "unstarted"
    /\ \A m \in Mappers : mapperState[m] = "unstarted"

\* C9 (amended): a schema failure ends the process before any worker is started; a
\* failure to open the source ends it with the progress reporter and the Spill
\* Writer started and no mapper; a gzip failure ends it with the reporter, the
\* writer and every mapper started; in each case no line has been read.
C9_WorkersAtSetupFailure ==
  /\ abortCause \in {"schema_read", "schema_parse"} =>
       /\ ~reporterStarted
       /\ writerState = "unstarted"
       /\ \A m \in Mappers : mapperState[m] = "unstarted"
  /\ abortCause = "open" =>
       /\ reporterStarted
       /\ writerState = "running"
       /\ \A m \in Mappers : mapperState[m] = "unstarted"
  /\ abortCause = "gzip" =>
       /\ reporterStarted
       /\ writerState = "running"
       /\ \A m \in Mappers : mapperState[m] = "recv"
  /\ abortCause \in SetupCauses => NoRecordRead

\* the gzip reader failed with two mappers already started
C9_Witness ==
  /\ abortCause = "gzip"
  /\ numGoroutines = 2
  /\ \A m \in Mappers : mapperState[m] = "recv"

\* C10: once the scan has reported an error the main goroutine only reaches the
\* fatal check; the process ends there, with no Spill Reader, Merger or reducer
\* goroutine ever started, no summary, no os.RemoveAll, and the temporary directory
\* with its Runs in place.
C10_ScanErrorIsFatal ==
  /\ scanErr => pc \in {"checkErr", "aborted"} /\ abortCause \in {"", "scan"}
  /\ (pc = "aborted" /\ abortCause = "scan") <=> (scanErr /\ pc # "checkErr")
  /\ scanErr =>
       /\ mergerState = "unstarted" /\ readerPos = <<>>
       /\ reducerState = <<>> /\ emitted = <<>>
       /\ ~summaryEmitted
       /\ removeCalls = {}
       /\ TmpPostingsDir \in dirs

\* the scan failed after a line was enqueued and a Run was spilled
C10_Witness ==
  /\ abortCause = "scan"
  /\ scanned >= 1
  /\ Len(runs) >= 1

(***************************************************************************)
(* The postings of the map phase.                                           *)
(***************************************************************************)
\* every posting the source gives rise to
AllPostings ==
  {p \in (1..Len(source)) \X (1..MaxPostings) : p[2] <= Transform(p[1])}

\* the postings the mappers have sent so far: those of the lines taken from
\* rdfCh, less what the mapper that holds the line has still to send
Produced ==
  {p \in AllPostings :
     /\ mapped[p[1]] >= 1
     /\ ~ \E m \in Mappers : mapperCur[m][1] = p[1] /\ p[2] <= mapperCur[m][2]}

RECURSIVE Flatten(_)
Flatten(ss) == IF ss = <<>> THEN <<>> ELSE Head(ss) \o Flatten(Tail(ss))

\* what the Spill Writer has received: its buffer and the Runs it has written
Received == writerBuf \o Flatten(runs)

\* a mapper stands at its send with postingsCh full
BlockedMapper(m) ==
  IF m \in Mappers THEN mapperState[m] = "emit" /\ Len(postingsCh) = QueueCap
  ELSE FALSE

\* postingsCh never holds more than its capacity; a posting a mapper has sent is
\* exactly once in the channel or with the Spill Writer, and nothing else is
\* there; a mapper that finds the channel full keeps its posting, unsent; when
\* the Spill Writer has seen the channel closed and empty it has received every
\* posting of the source exactly once
NoPostingLost ==
  /\ Len(postingsCh) <= QueueCap
  /\ Range(postingsCh \o Received) \subseteq AllPostings
  /\ \A p \in AllPostings :
       Count(p, postingsCh \o Received) = (IF p \in Produced THEN 1 ELSE 0)
  /\ \A m \in Mappers :
       BlockedMapper(m) =>
         /\ mapperCur[m] \in AllPostings
         /\ mapperCur[m] \notin Produced
  /\ writerState = "done" =>
       /\ postingsClosed /\ postingsCh = <<>>
       /\ \A p \in AllPostings : Count(p, Received) = 1

\* C11: postingsCh never exceeds its capacity and no posting is dropped,
\* duplicated or invented on the way to the Spill Writer, which has every posting
\* exactly once when it sees the channel closed and empty; a mapper blocked at a
\* full postingsCh goes on once the Spill Writer has freed a slot (or the process
\* has ended on a fatal check).
C11_BackpressureWithoutLoss ==
  /\ []NoPostingLost
  /\ \A m \in 1..MaxGoroutines :
       BlockedMapper(m) ~> (~BlockedMapper(m) \/ ~Alive)

\* a mapper waits at a full postingsCh while the Spill Writer has received nothing
C11_Witness ==
  /\ \E m \in Mappers : BlockedMapper(m)
  /\ Received = <<>>
  /\ writerState = "running"

(***************************************************************************)
(* The postings of the reduce phase.                                        *)
(***************************************************************************)
\* the Spill Readers have been started
ReadersStarted == mergerState # "unstarted"

\* what Spill Reader i has read from its Run and sent on its channel so far
ReadBy(i) == SubSeq(RunOf(i), 1, readerPos[i] - 1)

RECURSIVE ReadBackUpTo(_)
ReadBackUpTo(n) == IF n = 0 THEN <<>> ELSE ReadBackUpTo(n - 1) \o ReadBy(n)

\* everything read back by the Spill Readers
ReadBack == ReadBackUpTo(Len(readerPos))

\* where a posting that was read back is: in a reader's channel, in the batch
\* the Merger assembles or in a batch it has emitted
Merged == Flatten(shuffleInputChs) \o curBatch \o Flatten(emitted)

\* C12: a posting is never in two Runs and, once writeMapOutput has returned,
\* every posting of the map phase is in exactly one Run, each Run under a path
\* of its own in ld.mapOutput; reduceStage starts exactly one Spill Reader per
\* path of ld.mapOutput, each with its own channel and reading the Run of its
\* path, so what a reader has sent comes from its Run only, every posting is read
\* back at most once, by the reader of its Run, and exactly once when the readers
\* have closed their channels, and nothing read back is lost or duplicated on the
\* way into the batches.
C12_SpillExactlyOnce ==
  /\ \A p \in AllPostings : Count(p, Flatten(runs)) <= 1
  /\ writerState = "done" =>
       /\ \A p \in AllPostings : Count(p, Flatten(runs)) = 1
       /\ Len(mapOutput) = Len(runs)
       /\ \A i, j \in 1..Len(mapOutput) : mapOutput[i] = mapOutput[j] => i = j
       /\ \A i \in 1..Len(mapOutput) : mapOutput[i] = RunPath(i)
  /\ ~ReadersStarted => readerPos = <<>> /\ shuffleInputChs = <<>>
  /\ ReadersStarted =>
       /\ Len(readerPos) = Len(mapOutput)
       /\ Len(shuffleInputChs) = Len(mapOutput)
       /\ Len(readerClosed) = Len(mapOutput)
       /\ \A i \in Readers :
            /\ readerPos[i] \in 1..(Len(RunOf(i)) + 1)
            /\ Len(shuffleInputChs[i]) <= Len(ReadBy(i))
            /\ shuffleInputChs[i] =
                 SubSeq(ReadBy(i), Len(ReadBy(i)) - Len(shuffleInputChs[i]) + 1,
                        Len(ReadBy(i)))
            /\ readerClosed[i] => ReadBy(i) = RunOf(i)
       /\ \A p \in AllPostings :
            /\ Count(p, ReadBack) <= 1
            /\ Count(p, Merged) = Count(p, ReadBack)
       /\ Range(Merged) \subseteq AllPostings
       /\ (\A i \in Readers : readerClosed[i]) =>
            \A p \in AllPostings : Count(p, ReadBack) = 1
       /\ mergerState = "done" =>
            \A p \in AllPostings : Count(p, Flatten(emitted)) = 1

\* two Runs have been read back to the end by their two Spill Readers and merged
C12_Witness ==
  /\ Len(runs) = 2
  /\ Len(readerPos) = 2
  /\ \A i \in Readers : readerClosed[i]
  /\ mergerState = "done"
  /\ Cardinality(AllPostings) = 2

(***************************************************************************)
(* Termination of the map phase.                                            *)
(***************************************************************************)
\* mapStage has been entered and has neither returned nor ended the process
MapStageRunning == Alive /\ pc # "newLoader" /\ ~MapStageReturned

\* both channels closed and empty, every mapper and the Spill Writer gone
MapPhaseDrained ==
  /\ scanned = Len(source)
  /\ rdfClosed /\ rdfCh = <<>>
  /\ \A m \in Mappers : mapperState[m] = "done"
  /\ mapperWg = 0
  /\ postingsClosed /\ postingsCh = <<>>
  /\ writerState = "done" /\ writerBuf = <<>>
  /\ postingWriterWg = 0

\* C13: under fair scheduling a mapStage that was entered returns, unless one of
\* its fatal checks (temporary directory, open, gzip, scan error) ended the
\* process, and once the scan loop has ended without error it returns whatever
\* happens; it returns only with rdfCh closed and drained, all mappers gone,
\* postingsCh closed and drained and the Spill Writer gone; and no state of a
\* mapStage in progress is a deadlock: some goroutine can take a step.
C13_MapPhaseTerminates ==
  /\ [](MapStageReturned => MapPhaseDrained)
  /\ [](MapStageRunning => ENABLED Next)
  /\ MapStageRunning ~> (MapStageReturned \/ ~Alive)
  /\ (pc = "closeRdfCh") ~> (pc = AfterMapStage)

\* mapStage has returned for a source of two lines with more postings than a
\* channel holds, mapped by two mappers
C13_Witness ==
  /\ pc = AfterMapStage
  /\ Len(source) > QueueCap
  /\ Sum(source) > QueueCap
  /\ numGoroutines = 2

(***************************************************************************)
(* Join and termination of the reduce phase.                                *)
(***************************************************************************)
\* reduceCh closed and drained, a reducer goroutine spawned for every batch and
\* every one of them back from reduce and done, no token of pending outstanding
ReducersJoined ==
  /\ reduceClosed /\ reduceCh = <<>>
  /\ Len(reducerState) = Len(emitted)
  /\ \A w \in Reducers : reducerState[w] = "done" /\ reducerArg[w] # <<>>
  /\ reduceWg = 0
  /\ pending = 0

\* C15: endSummary is called, and has been called, only with reduceCh closed
\* and drained, every spawned reducer goroutine back from its reduce call and
\* no token of pending outstanding; and under fair scheduling a reduceStage that
\* was entered emits the summary and returns, unless a failing reduce call ended
\* the process.
C15_ReduceJoin ==
  /\ []((pc = "endSummary" \/ summaryEmitted) => ReducersJoined)
  /\ (pc = "reduceStage") ~> (summaryEmitted \/ ~Alive)
  /\ (pc = "reduceStage") ~> (ReduceStageReturned \/ abortCause = "reduce")

\* the summary was emitted after two batches went through a limiter of one token
C15_Witness ==
  /\ summaryEmitted
  /\ numGoroutines = 1
  /\ Len(emitted) = 2
  /\ Len(reducerState) = 2

(***************************************************************************)
(* The two closes of mapStage.                                              *)
(***************************************************************************)
\* a mapper goroutine that can still send on postingsCh
MapperLive(m) == mapperState[m] \in {"recv", "emit"}

\* C17: rdfCh is closed only when the scan loop has sent the last line of the
\* source and ended without error, and the loop never sends on a closed rdfCh;
\* postingsCh is closed only when rdfCh is closed and every mapper has sent its
\* last posting and is done; no mapper stands at a send, or can come to one,
\* with postingsCh closed, and nothing is ever added to a closed channel.
C17_NoSendOnClosed ==
  /\ []( /\ rdfClosed =>
              /\ scanned = Len(source)
              /\ ~scanErr
              /\ pc \notin {"scan", "checkErr", "closeRdfCh"}
         /\ pc = "scan" => ~rdfClosed
         /\ postingsClosed =>
              /\ rdfClosed /\ rdfCh = <<>>
              /\ mapperWg = 0
              /\ \A m \in Mappers : mapperState[m] = "done"
              /\ Produced = AllPostings
         /\ \A m \in Mappers : MapperLive(m) => ~postingsClosed )
  /\ [][ /\ Len(rdfCh') > Len(rdfCh) => ~rdfClosed /\ ~rdfClosed'
         /\ Len(postingsCh') > Len(postingsCh) => ~postingsClosed /\ ~postingsClosed'
       ]_vars

\* postingsCh has been closed after two mappers sent the postings of two lines
C17_Witness ==
  /\ postingsClosed
  /\ numGoroutines = 2
  /\ Len(source) = 2
  /\ Cardinality(AllPostings) = 2

(***************************************************************************)
(* The reduce phase on its own: main enters reduceStage after a map phase   *)
(* over a source of up to MaxBatches lines of one posting each, which the   *)
(* Spill Writer wrote to one Run; every line has a grouping key of its own, *)
(* so the Merger emits one batch per line.                                  *)
(***************************************************************************)
\* the most batches the Merger emits in the reduce phase taken on its own
MaxBatches == 7
\* the capacity of pending up to which the reduce phase is taken on its own
MaxPending == 1

InitReduce ==
  /\ pc = AfterMapStage
  /\ abortCause = ""
  /\ source \in {[r \in 1..n |-> 1] : n \in 0..MaxBatches}
  /\ numGoroutines \in 1..MaxPending
  /\ reporterStarted = TRUE
  /\ dirs = {TmpPostingsDir}
  /\ scanned = Len(source)
  /\ scanErr = FALSE
  /\ rdfCh = <<>> /\ rdfClosed = TRUE
  /\ postingsCh = <<>> /\ postingsClosed = TRUE
  /\ mapperState = [m \in 1..numGoroutines |-> "done"]
  /\ mapperCur = [m \in 1..numGoroutines |-> <<0, 0>>]
  /\ mapped = [r \in 1..Len(source) |-> 1]
  /\ mapperWg = 0
  /\ postingWriterWg = 0
  /\ writerState = "done"
  /\ writerBuf = <<>>
  /\ runs = IF source = <<>> THEN <<>>
            ELSE <<SortPostings([r \in 1..Len(source) |-> <<r, 1>>])>>
  /\ mapOutput = [i \in 1..Len(runs) |-> RunPath(i)]
  /\ readerPos = <<>>
  /\ readerClosed = <<>>
  /\ shuffleInputChs = <<>>
  /\ mergerState = "unstarted"
  /\ curBatch = <<>>
  /\ reduceCh = <<>> /\ reduceClosed = FALSE
  /\ emitted = <<>>
  /\ batch = <<>>
  /\ pending = 0
  /\ reduceWg = 0
  /\ reducerState = <<>>
  /\ reducerArg = <<>>
  /\ summaryEmitted = FALSE
  /\ removeCalls = {}
  /\ NoAcl

SpecReduce == InitReduce /\ [][ReduceNext]_vars

\* the reducer goroutines whose reduce call has returned
Returned == {w \in Reducers : reducerState[w] \in {"released", "done"}}

\* the batches the Merger has emitted that no reduce call that has returned was
\* given
Unaggregated ==
  {i \in 1..Len(emitted) : ~ \E w \in Returned : reducerArg[w] = emitted[i]}

\* 3 in reduceCh, 1 in the loop variable, numGoroutines inside reduce
LookAhead == numGoroutines + ReduceChCap + 1

\* the batches emitted, less the reduce calls that have returned
LookAheadByCount ==
  /\ Len(reduceCh) <= ReduceChCap
  /\ Len(emitted) - Cardinality(Returned) <= LookAhead

\* C16: reduceCh never holds more than 3 batches, and the batches the Merger
\* has emitted whose aggregation has not completed are never more than
\* numGoroutines + 4.
C16_BoundedLookAhead ==
  /\ Len(reduceCh) <= ReduceChCap
  /\ Cardinality(Unaggregated) <= LookAhead

(***************************************************************************)
(* The ACL cache: the goroutines that call update and authorizePredicate.   *)
(* A map or slice is known by the update that made it: aclHeap[k] holds the *)
(* predPerms map and the predRegexRules slice the k-th live update built,   *)
(* and aclCache and the locals of the callers point to them by k.           *)
(***************************************************************************)
Clients == 1..Len(aclClient)

\* room for what the cache and every caller can point to at once
Ids == 1..(2 + 2 * Len(aclClient))

\* the arguments the callers pass
UpdateInputs == IF aclWorkload = "all" THEN GroupLists ELSE ConcGroupLists
AuthInputs == IF aclWorkload = "all" THEN Queries ELSE ConcQueries

\* the next map and slice to be made
FreshId == CHOOSE i \in Ids \ DOMAIN aclHeap : \A j \in Ids \ DOMAIN aclHeap : i <= j

\* what the cache and the callers point to
Refs(cache, clients) ==
  ({cache.predPerms, cache.predRegexRules}
   \cup {clients[c].new : c \in 1..Len(clients)}
   \cup {clients[c].snap.predPerms : c \in 1..Len(clients)}
   \cup {clients[c].snap.predRegexRules : c \in 1..Len(clients)}) \ {0}

\* the maps and slices nothing points to any more are gone
Collect(heap, cache, clients) ==
  [k \in (DOMAIN heap) \cap Refs(cache, clients) |-> heap[k]]

\* an update that fills the maps the cache already holds instead of new ones
UpdateBuildMerging(c) ==
  /\ aclClient[c].pc = "idle"
  /\ \E groups \in UpdateInputs :
       LET old == aclHeap[aclCache.predRegexRules].predRegexRules
           st == ApplyGroups(
                   [predPerms |-> aclHeap[aclCache.predPerms].predPerms,
                    predRegexPerms |->
                      [e \in {old[i].predRegex.expr : i \in 1..Len(old)} |->
                         CHOOSE r \in Range(old) : r.predRegex.expr = e]],
                   groups)
       IN \E predRegexRules \in Slices(st.predRegexPerms) :
            /\ aclHeap' = [k \in (DOMAIN aclHeap) \cup {FreshId} |->
                             IF k = FreshId
                             THEN [predPerms |-> st.predPerms,
                                   predRegexRules |-> predRegexRules]
                             ELSE aclHeap[k]]
            /\ aclClient' = [aclClient EXCEPT ![c] =
                               [@ EXCEPT !.pc = "lock", !.groups = groups,
                                         !.new = FreshId, !.result = ""]]
  /\ UNCHANGED <<loaderVars, aclWorkload, aclCache, aclLock>>

\* update, lines 62-109: the two maps are made and filled from the groups, the
\* regex rules are put into a slice
UpdateBuild(c) ==
  /\ aclClient[c].pc = "idle"
  /\ \E groups \in UpdateInputs :
       LET st == ApplyGroups(EmptyMaps, groups)
       IN \E predRegexRules \in Slices(st.predRegexPerms) :
            /\ aclHeap' = [k \in (DOMAIN aclHeap) \cup {FreshId} |->
                             IF k = FreshId
                             THEN [predPerms |-> st.predPerms,
                                   predRegexRules |-> predRegexRules]
                             ELSE aclHeap[k]]
            /\ aclClient' = [aclClient EXCEPT ![c] =
                               [@ EXCEPT !.pc = "lock", !.groups = groups,
                                         !.new = FreshId, !.result = ""]]
  /\ UNCHANGED <<loaderVars, aclWorkload, aclCache, aclLock>>

\* aclCachePtr.Lock(): waits until no writer and no reader holds the mutex
UpdateLock(c) ==
  /\ aclClient[c].pc = "lock"
  /\ aclLock.writer = 0 /\ aclLock.readers = {}
  /\ aclLock' = [aclLock EXCEPT !.writer = c]
  /\ aclClient' = [aclClient EXCEPT ![c].pc = "setPredPerms"]
  /\ UNCHANGED <<loaderVars, aclWorkload, aclCache, aclHeap>>

\* aclCachePtr.predPerms = predPerms
UpdateSetPredPerms(c) ==
  /\ aclClient[c].pc = "setPredPerms"
  /\ LET cache == [aclCache EXCEPT !.predPerms = aclClient[c].new]
         clients == [aclClient EXCEPT ![c].pc = "setPredRegexRules"]
     IN /\ aclCache' = cache
        /\ aclClient' = clients
        /\ aclHeap' = Collect(aclHeap, cache, clients)
  /\ UNCHANGED <<loaderVars, aclWorkload, aclLock>>

\* aclCachePtr.predRegexRules = predRegexRules
UpdateSetPredRegexRules(c) ==
  /\ aclClient[c].pc = "setPredRegexRules"
  /\ LET cache == [aclCache EXCEPT !.predRegexRules = aclClient[c].new]
         clients == [aclClient EXCEPT ![c].pc = "unlock"]
     IN /\ aclCache' = cache
        /\ aclClient' = clients
        /\ aclHeap' = Collect(aclHeap, cache, clients)
  /\ UNCHANGED <<loaderVars, aclWorkload, aclLock>>

\* the deferred aclCachePtr.Unlock(); update returns
UpdateUnlock(c) ==
  /\ aclClient[c].pc = "unlock"
  /\ aclLock' = [aclLock EXCEPT !.writer = 0]
  /\ LET clients == [aclClient EXCEPT ![c] = IdleClient]
     IN /\ aclClient' = clients
        /\ aclHeap' = Collect(aclHeap, aclCache, clients)
  /\ UNCHANGED <<loaderVars, aclWorkload, aclCache>>

\* authorizePredicate is called: an ACL predicate is refused at once
AuthCall(c) ==
  /\ aclClient[c].pc = "idle"
  /\ \E query \in AuthInputs :
       aclClient' = [aclClient EXCEPT ![c] =
                       IF IsAclPredicate(query.predicate)
                       THEN [@ EXCEPT !.pc = "return", !.query = query,
                                      !.result = "acl_predicate"]
                       ELSE [@ EXCEPT !.pc = "rlock", !.query = query,
                                      !.result = ""]]
  /\ UNCHANGED <<loaderVars, aclWorkload, aclCache, aclHeap, aclLock>>

\* an authorizePredicate that does not wait for the writer
AuthRLockNoWait(c) ==
  /\ aclClient[c].pc = "rlock"
  /\ aclLock' = [aclLock EXCEPT !.readers = @ \cup {c}]
  /\ aclClient' = [aclClient EXCEPT ![c].pc = "readPredPerms"]
  /\ UNCHANGED <<loaderVars, aclWorkload, aclCache, aclHeap>>

\* aclCachePtr.RLock(): waits while a writer holds the mutex
AuthRLock(c) ==
  /\ aclClient[c].pc = "rlock"
  /\ aclLock.writer = 0
  /\ aclLock' = [aclLock EXCEPT !.readers = @ \cup {c}]
  /\ aclClient' = [aclClient EXCEPT ![c].pc = "readPredPerms"]
  /\ UNCHANGED <<loaderVars, aclWorkload, aclCache, aclHeap>>

\* predPerms, ... := aclCachePtr.predPerms, ...
AuthReadPredPerms(c) ==
  /\ aclClient[c].pc = "readPredPerms"
  /\ aclClient' = [aclClient EXCEPT ![c] =
                     [@ EXCEPT !.pc = "readPredRegexRules",
                               !.snap = [@ EXCEPT !.predPerms = aclCache.predPerms]]]
  /\ UNCHANGED <<loaderVars, aclWorkload, aclCache, aclHeap, aclLock>>

\* ..., predRegexRules := ..., aclCachePtr.predRegexRules
AuthReadPredRegexRules(c) ==
  /\ aclClient[c].pc = "readPredRegexRules"
  /\ aclClient' = [aclClient EXCEPT ![c] =
                     [@ EXCEPT !.pc = "runlock",
                               !.snap = [@ EXCEPT !.predRegexRules =
                                                    aclCache.predRegexRules]]]
  /\ UNCHANGED <<loaderVars, aclWorkload, aclCache, aclHeap, aclLock>>

\* aclCachePtr.RUnlock()
AuthRUnlock(c) ==
  /\ aclClient[c].pc = "runlock"
  /\ aclLock' = [aclLock EXCEPT !.readers = @ \ {c}]
  /\ aclClient' = [aclClient EXCEPT ![c].pc = "eval"]
  /\ UNCHANGED <<loaderVars, aclWorkload, aclCache, aclHeap>>

\* lines 127-154: the decision, on the map and the slice that were read
AuthEval(c) ==
  /\ aclClient[c].pc = "eval"
  /\ LET cl == aclClient[c]
     IN aclClient' = [aclClient EXCEPT ![c] =
          [@ EXCEPT !.pc = "return",
                    !.result = Evaluate(aclHeap[cl.snap.predPerms].predPerms,
                                        aclHeap[cl.snap.predRegexRules].predRegexRules,
                                        cl.query.groups, cl.query.predicate,
                                        cl.query.operation)]]
  /\ UNCHANGED <<loaderVars, aclWorkload, aclCache, aclHeap, aclLock>>

\* authorizePredicate returns
AuthReturn(c) ==
  /\ aclClient[c].pc = "return"
  /\ LET clients == [aclClient EXCEPT ![c] = IdleClient]
     IN /\ aclClient' = clients
        /\ aclHeap' = Collect(aclHeap, aclCache, clients)
  /\ UNCHANGED <<loaderVars, aclWorkload, aclCache, aclLock>>

AclNext ==
  \/ \E c \in Clients : UpdateBuild(c)
  \/ \E c \in Clients : UpdateLock(c)
  \/ \E c \in Clients : UpdateSetPredPerms(c)
  \/ \E c \in Clients : UpdateSetPredRegexRules(c)
  \/ \E c \in Clients : UpdateUnlock(c)
  \/ \E c \in Clients : AuthCall(c)
  \/ \E c \in Clients : AuthRLock(c)
  \/ \E c \in Clients : AuthReadPredPerms(c)
  \/ \E c \in Clients : AuthReadPredRegexRules(c)
  \/ \E c \in Clients : AuthRUnlock(c)
  \/ \E c \in Clients : AuthEval(c)
  \/ \E c \in Clients : AuthReturn(c)

\* the server with its cache as made; the bulk loader is another program and
\* is not running
AclStart(workload, n) ==
  /\ source = <<>>
  /\ numGoroutines = 1
  /\ NotStarted
  /\ aclWorkload = workload
  /\ aclCache = [predPerms |-> 1, predRegexRules |-> 1]
  /\ aclHeap = <<InitialMaps>>
  /\ aclLock = [writer |-> 0, readers |-> {}]
  /\ aclClient = [c \in 1..n |-> IdleClient]

\* one goroutine calls update and authorizePredicate, one call after the other,
\* with every argument of the model
InitAcl == AclStart("all", 1)

SpecAcl == InitAcl /\ [][AclNext]_vars

\* up to MaxClients goroutines call update and authorizePredicate at the same
\* time, with a few arguments
InitAclConc == \E n \in 1..MaxClients : AclStart("few", n)

SpecAclConc == InitAclConc /\ [][AclNext]_vars


(***************************************************************************)
(* What authorizePredicate decides.                                         *)
(***************************************************************************)
RECURSIVE Pow2(_)
Pow2(k) == IF k = 0 THEN 1 ELSE 2 * Pow2(k - 1)

\* some bit is set in both a and b
BitsIntersect(a, b) ==
  \E k \in 0..a : (a \div Pow2(k)) % 2 = 1 /\ (b \div Pow2(k)) % 2 = 1

\* the map and the slice a call of authorizePredicate has read
SnapPredPerms(c) == aclHeap[aclClient[c].snap.predPerms].predPerms
SnapPredRegexRules(c) == aclHeap[aclClient[c].snap.predRegexRules].predRegexRules

\* the group -> permission maps of the rules that match the predicate of the
\* call: the exact-predicate rule, and every regex rule whose regex matches
MatchingPerms(c) ==
  LET predicate == aclClient[c].query.predicate
      rules == SnapPredRegexRules(c)
  IN (IF predicate \in DOMAIN SnapPredPerms(c)
      THEN {SnapPredPerms(c)[predicate]} ELSE {})
     \cup {rules[i].groupPerms :
             i \in {j \in 1..Len(rules) : MatchString(rules[j].predRegex, predicate)}}

\* a group -> permission map gives one of the caller's groups a permission
\* with a bit of the operation code
Grants(groupPerms, query) ==
  \E g \in Range(query.groups) \cap DOMAIN groupPerms :
    BitsIntersect(groupPerms[g], query.operation.Code)

\* C14: a call of authorizePredicate for an ACL predicate ends with an error
\* whatever the cache holds; for any other predicate it ends without error when
\* no exact-predicate rule and no regex rule matches the predicate, and when
\* some rule matches it ends without error exactly if a matching rule gives one
\* of the caller's groups a permission that shares a bit with the operation code,
\* and with the unauthorized error otherwise.
C14_FailOpen ==
  \A c \in Clients :
    aclClient[c].pc = "return" =>
      IF IsAclPredicate(aclClient[c].query.predicate)
      THEN aclClient[c].result = "acl_predicate"
      ELSE aclClient[c].result =
             IF MatchingPerms(c) = {} THEN "nil"
             ELSE IF \E groupPerms \in MatchingPerms(c) :
                       Grants(groupPerms, aclClient[c].query)
                  THEN "nil"
                  ELSE "unauthorized"

\* a call ended without error on a regex rule, the exact-predicate rule of the
\* predicate having given the caller's groups nothing
C14_Witness ==
  \E c \in Clients :
    /\ aclClient[c].pc = "return"
    /\ aclClient[c].result = "nil"
    /\ ~IsAclPredicate(aclClient[c].query.predicate)
    /\ IF aclClient[c].snap.predPerms = 0 THEN FALSE
       ELSE /\ aclClient[c].query.predicate \in DOMAIN SnapPredPerms(c)
            /\ ~Grants(SnapPredPerms(c)[aclClient[c].query.predicate], aclClient[c].query)
            /\ Cardinality(MatchingPerms(c)) = 2

\* calls that ended: without error for want of any rule on the predicate while
\* the cache holds rules, with the unauthorized error, on an ACL predicate
C14_FailOpenReached ==
  \E c \in Clients :
    /\ aclClient[c].pc = "return" /\ aclClient[c].result = "nil"
    /\ IF aclClient[c].snap.predPerms = 0 THEN FALSE
       ELSE MatchingPerms(c) = {} /\ SnapPredPerms(c) # <<>>
C14_UnauthorizedReached ==
  \E c \in Clients : aclClient[c].pc = "return" /\ aclClient[c].result = "unauthorized"
C14_AclPredicateReached ==
  \E c \in Clients :
    /\ aclClient[c].pc = "return" /\ aclClient[c].result = "acl_predicate"
    /\ aclHeap[aclCache.predPerms].predPerms # <<>>

(***************************************************************************)
(* update and authorizePredicate at the same time.                          *)
(***************************************************************************)
\* the calls of authorizePredicate that have read both fields of the cache
HasSnapshot(c) ==
  \/ aclClient[c].pc \in {"runlock", "eval"}
  \/ aclClient[c].pc = "return" /\ ~IsAclPredicate(aclClient[c].query.predicate)

\* C18: the map and the slice a call of authorizePredicate has read, and
\* decides on, were made by one and the same update, or are both those the
\* cache was made with; outside an update's critical section the cache itself
\* holds the map and the slice of one update; a writer holds the mutex alone;
\* and a map or slice, once made, is never changed, whoever has obtained it.
C18_SnapshotAtomic ==
  /\ [](\A c \in Clients :
          HasSnapshot(c) =>
            /\ aclClient[c].snap.predPerms = aclClient[c].snap.predRegexRules
            /\ aclClient[c].snap.predPerms \in DOMAIN aclHeap)
  /\ [](aclLock.writer = 0 => aclCache.predPerms = aclCache.predRegexRules)
  /\ [](aclLock.writer # 0 => aclLock.readers = {})
  /\ [][\A k \in (DOMAIN aclHeap) \cap (DOMAIN aclHeap') : aclHeap'[k] = aclHeap[k]]_vars

\* a call of authorizePredicate decides on the map and slice of one update
\* while another update has replaced the map of the cache and not yet the slice
C18_Witness ==
  \E c, u \in Clients :
    /\ aclClient[c].pc = "eval"
    /\ aclClient[c].snap.predPerms # 1
    /\ aclClient[u].pc = "setPredRegexRules"
    /\ aclCache.predPerms # aclCache.predRegexRules
    /\ aclCache.predRegexRules = aclClient[c].snap.predRegexRules

(***************************************************************************)
(* What update leaves in the cache.                                         *)
(***************************************************************************)
\* the map and the slice the cache holds
CachePredPerms == aclHeap[aclCache.predPerms].predPerms
CachePredRegexRules == aclHeap[aclCache.predRegexRules].predRegexRules

\* the rules of the groups whose blob unmarshals, by group and place in the blob
Positions(groups) ==
  {p \in (1..Len(groups)) \X (1..MaxAclSize) :
     /\ ~Unmarshal(groups[p[1]].Acls).err
     /\ p[2] <= Len(Unmarshal(groups[p[1]].Acls).acls)}
RuleAt(groups, p) == Unmarshal(groups[p[1]].Acls).acls[p[2]]
GroupAt(groups, p) == groups[p[1]].GroupID

\* a rule on one predicate; a rule on a regex: no predicate, a regex, and it
\* compiles
IsExact(rule) == rule.Predicate # <<>>
IsRegex(rule) == rule.Predicate = <<>> /\ rule.Regex # <<>> /\ ~Compile(rule.Regex).err

\* the permission of a rule is in the cache under predicate -> group, or under
\* regex -> group
StoredExact(groupID, rule) ==
  IF rule.Predicate \in DOMAIN CachePredPerms
  THEN IF groupID \in DOMAIN CachePredPerms[rule.Predicate]
       THEN CachePredPerms[rule.Predicate][groupID] = rule.Perm
       ELSE FALSE
  ELSE FALSE
StoredRegex(groupID, rule) ==
  \E k \in 1..Len(CachePredRegexRules) :
    /\ CachePredRegexRules[k].predRegex = Compile(rule.Regex).re
    /\ IF groupID \in DOMAIN CachePredRegexRules[k].groupPerms
       THEN CachePredRegexRules[k].groupPerms[groupID] = rule.Perm
       ELSE FALSE

\* a later rule of the same group id on the same predicate, or the same regex
Overridden(groups, p) ==
  \E q \in Positions(groups) :
    /\ q[1] > p[1] \/ (q[1] = p[1] /\ q[2] > p[2])
    /\ GroupAt(groups, q) = GroupAt(groups, p)
    /\ \/ /\ IsExact(RuleAt(groups, p)) /\ IsExact(RuleAt(groups, q))
          /\ RuleAt(groups, q).Predicate = RuleAt(groups, p).Predicate
       \/ /\ IsRegex(RuleAt(groups, p)) /\ IsRegex(RuleAt(groups, q))
          /\ RuleAt(groups, q).Regex = RuleAt(groups, p).Regex

\* the cache holds nothing but what rules of the groups put there: every
\* permission under predicate -> group and under regex -> group is that of a rule
\* of such a group, and no regex has two entries
NothingElse(groups) ==
  /\ \A predicate \in DOMAIN CachePredPerms :
       /\ DOMAIN CachePredPerms[predicate] # {}
       /\ \A groupID \in DOMAIN CachePredPerms[predicate] :
            \E p \in Positions(groups) :
              /\ IsExact(RuleAt(groups, p))
              /\ RuleAt(groups, p).Predicate = predicate
              /\ GroupAt(groups, p) = groupID
              /\ RuleAt(groups, p).Perm = CachePredPerms[predicate][groupID]
  /\ \A k \in 1..Len(CachePredRegexRules) :
       /\ DOMAIN CachePredRegexRules[k].groupPerms # {}
       /\ \A groupID \in DOMAIN CachePredRegexRules[k].groupPerms :
            \E p \in Positions(groups) :
              /\ IsRegex(RuleAt(groups, p))
              /\ Compile(RuleAt(groups, p).Regex).re = CachePredRegexRules[k].predRegex
              /\ GroupAt(groups, p) = groupID
              /\ RuleAt(groups, p).Perm = CachePredRegexRules[k].groupPerms[groupID]
  /\ \A k, l \in 1..Len(CachePredRegexRules) :
       CachePredRegexRules[k].predRegex = CachePredRegexRules[l].predRegex => k = l

\* update has assigned both fields of the cache and is about to return
UpdateDone(c) == aclClient[c].pc = "unlock"

\* C19 (as claimed): when update(groups) returns the cache holds nothing but
\* what the rules of groups put there, and for every group whose blob
\* unmarshals and every rule in it the permission is in the cache under
\* predicate -> group, or under regex -> group when the predicate is empty and
\* the regex compiles.
C19_EveryRuleStored ==
  \A c \in Clients :
    UpdateDone(c) =>
      /\ NothingElse(aclClient[c].groups)
      /\ \A p \in Positions(aclClient[c].groups) :
           LET rule == RuleAt(aclClient[c].groups, p)
               groupID == GroupAt(aclClient[c].groups, p)
           IN /\ IsExact(rule) => StoredExact(groupID, rule)
              /\ IsRegex(rule) => StoredRegex(groupID, rule)

\* C19 (amended): when update(groups) returns the cache holds nothing but what
\* the rules of groups put there, whatever it held before; for every group
\* whose blob unmarshals and every rule in it that no later rule of the same
\* group id on the same predicate (or regex) overrides, the permission is in the
\* cache under predicate -> group, or under regex -> group when the predicate is
\* empty and the regex compiles; groups whose blob does not
\* unmarshal and rules whose regex does not compile leave no trace and do not
\* keep the other rules out.
C19_FullReplacement ==
  \A c \in Clients :
    UpdateDone(c) =>
      /\ NothingElse(aclClient[c].groups)
      /\ \A p \in Positions(aclClient[c].groups) :
           LET rule == RuleAt(aclClient[c].groups, p)
               groupID == GroupAt(aclClient[c].groups, p)
           IN ~Overridden(aclClient[c].groups, p) =>
                /\ IsExact(rule) => StoredExact(groupID, rule)
                /\ IsRegex(rule) => StoredRegex(groupID, rule)

\* an update, not the first, of a group whose blob does not unmarshal and a
\* group with a rule has filled the cache
C19_Witness ==
  \E c \in Clients :
    /\ UpdateDone(c)
    /\ aclCache.predPerms # 2
    /\ Len(aclClient[c].groups) = 2
    /\ \E i \in 1..2 : Unmarshal(aclClient[c].groups[i].Acls).err
    /\ Positions(aclClient[c].groups) # {}
    /\ CachePredPerms # <<>>

\* an update whose first rule has a regex that does not compile has stored
\* the rule that follows it
C19_BadRegexSkipped ==
  \E c \in Clients :
    /\ UpdateDone(c)
    /\ Len(aclClient[c].groups) = 1
    /\ IF Len(aclClient[c].groups[1].Acls.acls) = 2
       THEN /\ Compile(aclClient[c].groups[1].Acls.acls[1].Regex).err
            /\ aclClient[c].groups[1].Acls.acls[1].Predicate = <<>>
            /\ Len(CachePredRegexRules) = 1
       ELSE FALSE

====
